---------------------------- MODULE Spec2Model ----------------------------
(***************************************************************************)
(* Fanout / claim / escalation state machine of app/api.py.                *)
(*                                                                         *)
(* The three coroutines (fanout_shift, handle_inbound_message and          *)
(* _schedule_escalation) run on one asyncio event loop.  A coroutine runs  *)
(* without interruption from one `await` to the next; every `await` is     *)
(* taken as a point where another coroutine may be scheduled.  Each action *)
(* below is the code between two consecutive awaits of one coroutine.      *)
(*                                                                         *)
(* ShiftFanout objects are mutable Python objects that the store hands out *)
(* by reference, so they live in a heap (`heap`) and the store (`fanouts`) *)
(* maps a shift id to a heap address.                                      *)
(***************************************************************************)
EXTENDS Naturals, Sequences, FiniteSets

\* Bounds of the model: how many requests of each kind are ever made.
MaxFanoutCalls == 2
MaxInbound == 2

None == "None"

\* datetime.now(UTC): the model keeps whether a timestamp is set, not its value
Now == "now"

\* ShiftFanoutStatus
PENDING == "pending"
CLAIMED == "claimed"
ESCALATED == "escalated"

\* ShiftRequestMessageIntent, as consumed by handle_inbound_message
ACCEPT == "ACCEPT"
DECLINE == "DECLINE"
UNKNOWN == "UNKNOWN"
Intents == {ACCEPT, DECLINE, UNKNOWN}

\* The Shift records of the store; both shifts need an RN.
\* "s0" is an identifier with no Shift record.
ShiftIds == {"s1", "s2"}
role_required(s) == "RN"

\* The Caregiver records: c1 and c2 are RNs, c3 is a CNA.
\* "p9" is a phone of no caregiver.
CaregiverIds == {"c1", "c2", "c3"}
role(c) == IF c = "c3" THEN "CNA" ELSE "RN"
phone(c) == CASE c = "c1" -> "p1" [] c = "c2" -> "p2" [] c = "c3" -> "p3"
Phones == {"p1", "p2", "p3", "p9"}

VARIABLES
    caregivers,  \* db.caregivers: caregiver ids in insertion order
    heap,        \* the ShiftFanout objects ever constructed
    fanouts,     \* db.fanouts: shift id -> heap address (0: no entry)
    keyOrder,    \* db.fanouts: its keys in insertion order
    claim_locks, \* _claim_locks: shift id -> None (no lock), "free" or "held"
    fan,         \* the fanout_shift calls, in the order they started
    inb,         \* the handle_inbound_message calls, in the order they started
    tasks,       \* _schedule_escalation tasks; task t was created with object t
    smsSent,     \* history: send_sms calls per shift and caregiver
    callsPlaced, \* history: place_phone_call calls per shift and caregiver
    writes       \* history: per object, the claims and escalations written to it

vars == <<caregivers, heap, fanouts, keyOrder, claim_locks, fan, inb, tasks,
          smsSent, callsPlaced, writes>>

store == <<heap, fanouts, keyOrder>>
history == <<smsSent, callsPlaced, writes>>

----------------------------------------------------------------------------
\* The store (app/database.py)

Range(f) == {f[i] : i \in DOMAIN f}

\* a faulty filter that keeps every caregiver: what C13_FailedFanoutIsClean must rule out
get_caregivers_by_role_any(r) == caregivers

\* Database.get_caregivers_by_role: the caregivers of that role, in store order
get_caregivers_by_role(r) == SelectSeq(caregivers, LAMBDA c : role(c) = r)

\* a faulty lookup that falls back on the first caregiver: what
\* C12_UnknownSenderRejected must rule out
get_caregiver_by_phone_or_first(p) ==
    IF \E i \in DOMAIN caregivers : phone(caregivers[i]) = p
    THEN caregivers[CHOOSE i \in DOMAIN caregivers : phone(caregivers[i]) = p]
    ELSE caregivers[1]

\* Database.get_caregiver_by_phone: the first caregiver with that phone, or None
get_caregiver_by_phone(p) ==
    IF \E i \in DOMAIN caregivers : phone(caregivers[i]) = p
    THEN caregivers[CHOOSE i \in DOMAIN caregivers :
                        /\ phone(caregivers[i]) = p
                        /\ \A j \in DOMAIN caregivers :
                              phone(caregivers[j]) = p => i <= j]
    ELSE None

\* db.shifts.get(shift_id) is not None
shift_exists(s) == s \in ShiftIds

\* db.fanouts.get(shift_id): a heap address, 0 for None
fanouts_get(s) == IF s \in ShiftIds THEN fanouts[s] ELSE 0

\* a faulty put that stores the object under every key: what
\* C21_OneRecordChanged must rule out
fanouts_put_all(s, o) == [x \in ShiftIds |-> o]

\* db.fanouts.put(shift_id, obj): the new mapping and the new key order
fanouts_put(s, o) == [fanouts EXCEPT ![s] = o]
keyOrder_put(s) == IF s \in Range(keyOrder) THEN keyOrder ELSE Append(keyOrder, s)

\* db.fanouts.all(): the stored objects' addresses in key order
fanouts_all == [i \in DOMAIN keyOrder |-> fanouts[keyOrder[i]]]

----------------------------------------------------------------------------
\* Requests: a call is appended when it starts and stays, with its result,
\* once it has returned

IdleFanout ==
    [shift_id |-> None, pc |-> "idle", matching |-> <<>>, idx |-> 0, now |-> None,
     result |-> None]

IdleInbound ==
    [from_phone |-> None, intent |-> None, pc |-> "idle", caregiver |-> None,
     fanout |-> 0, result |-> None, shift_id |-> None]

----------------------------------------------------------------------------
\* fanout_shift (api.py 36-91)

\* a faulty line 52 that never finds the record: what C5_SecondCallIsNoop must rule out
existing_fanout_never(s) == FALSE

\* line 52: `existing_fanout is not None`
existing_fanout(s) == fanouts_get(s) # 0

\* a faulty constructor that stamps the call time at creation: what
\* C9_PhoneCallIffEscalated must rule out
NewShiftFanout_called(s, now, contacted_ids) ==
    [shift_id |-> s, status |-> PENDING, created_at |-> now, claimed_by |-> None,
     sms_sent_at |-> now, phone_call_sent_at |-> now,
     contacted_caregiver_ids |-> contacted_ids]

\* lines 77-83: the ShiftFanout that fanout_shift constructs
NewShiftFanout(s, now, contacted_ids) ==
    [shift_id |-> s, status |-> PENDING, created_at |-> now, claimed_by |-> None,
     sms_sent_at |-> now, phone_call_sent_at |-> None,
     contacted_caregiver_ids |-> contacted_ids]

FanoutReturn(s, result) == [IdleFanout EXCEPT !.shift_id = s, !.pc = "done", !.result = result]

\* a faulty loop that texts each caregiver twice: what C16_FirstFanoutRecord must rule out
sent_twice(s, c) == [smsSent EXCEPT ![s][c] = @ + 2]

\* `smsSent` after one more send_sms(c.phone, ...) for shift s
sent(s, c) == [smsSent EXCEPT ![s][c] = @ + 1]

\* lines 42-75: the call starts, runs its checks and awaits the first send_sms
FanoutBegin(s) ==
    /\ Len(fan) < MaxFanoutCalls
    /\ LET matching == get_caregivers_by_role(role_required(s)) IN
       IF ~shift_exists(s)
       THEN /\ fan' = Append(fan, FanoutReturn(s, "404_shift_not_found"))
            /\ UNCHANGED smsSent
       ELSE IF existing_fanout(s)
       THEN /\ fan' = Append(fan, FanoutReturn(s, "already_fanout"))
            /\ UNCHANGED smsSent
       ELSE IF matching = <<>>
       THEN /\ fan' = Append(fan, FanoutReturn(s, "404_no_caregivers"))
            /\ UNCHANGED smsSent
       ELSE /\ fan' = Append(fan, [IdleFanout EXCEPT !.shift_id = s, !.pc = "sms",
                                        !.matching = matching, !.idx = 1, !.now = Now])
            /\ smsSent' = sent(s, matching[1])
    /\ UNCHANGED <<caregivers, store, claim_locks, inb, tasks, callsPlaced, writes>>

\* lines 74-75: a send_sms has returned; the loop awaits the next one
FanoutSendSms(f) ==
    /\ fan[f].pc = "sms"
    /\ fan[f].idx < Len(fan[f].matching)
    /\ smsSent' = sent(fan[f].shift_id, fan[f].matching[fan[f].idx + 1])
    /\ fan' = [fan EXCEPT ![f].idx = @ + 1]
    /\ UNCHANGED <<caregivers, store, claim_locks, inb, tasks, callsPlaced, writes>>

\* line 86: the coroutine object handed to asyncio.create_task
EscalationTask(s, created_at) ==
    [shift_id |-> s, created_at |-> created_at, pc |-> "sleep", fanout |-> 0,
     matching |-> <<>>, idx |-> 0, now |-> None, outcome |-> None]

\* lines 77-91: the last send_sms has returned; store the record, create the
\* escalation task, return
FanoutCommit(f) ==
    /\ fan[f].pc = "sms"
    /\ fan[f].idx = Len(fan[f].matching)
    /\ LET s == fan[f].shift_id IN
       /\ heap' = Append(heap, NewShiftFanout(s, fan[f].now, fan[f].matching))
       /\ fanouts' = fanouts_put(s, Len(heap) + 1)
       /\ keyOrder' = keyOrder_put(s)
       /\ tasks' = Append(tasks, EscalationTask(s, fan[f].now))
       /\ fan' = [fan EXCEPT ![f] = FanoutReturn(s, "fanout_initiated")]
    /\ writes' = Append(writes, [claims |-> 0, escalations |-> 0])
    /\ UNCHANGED <<caregivers, claim_locks, inb, smsSent, callsPlaced>>

----------------------------------------------------------------------------
\* _schedule_escalation (api.py 94-121)

\* line 100: `fanout is None or fanout.status != PENDING`
escalation_skips(o) == o = 0 \/ heap[o].status # PENDING

\* a faulty escalation that forgets line 119: what C7_EscalationFires must rule out
escalated_keeps_status(obj, now) == [obj EXCEPT !.phone_call_sent_at = now]

\* lines 119-120: what the escalation writes to the object it read at line 99
escalated(obj, now) == [obj EXCEPT !.status = ESCALATED, !.phone_call_sent_at = now]

\* lines 119-121 on task t, for the object o it read and the time it took
EscalationWrite(t, o, now) ==
    /\ heap' = [heap EXCEPT ![o] = escalated(heap[o], now)]
    /\ fanouts' = fanouts_put(tasks[t].shift_id, o)
    /\ keyOrder' = keyOrder_put(tasks[t].shift_id)
    /\ writes' = [writes EXCEPT ![o].escalations = @ + 1]

\* the task has returned: its locals are gone, what it did stays
TaskReturn(t, outcome) ==
    [EscalationTask(tasks[t].shift_id, tasks[t].created_at)
        EXCEPT !.pc = "done", !.outcome = outcome]

\* `callsPlaced` after one more place_phone_call(c.phone, ...) for shift s
placed(s, c) == [callsPlaced EXCEPT ![s][c] = @ + 1]

\* lines 96-117: the sleep ends; read and check the record; await the first call
EscalationWake(t) ==
    /\ tasks[t].pc = "sleep"
    /\ LET s == tasks[t].shift_id
           o == fanouts_get(s)
           matching == get_caregivers_by_role(role_required(s))
       IN
       IF escalation_skips(o) \/ ~shift_exists(s)
       THEN /\ tasks' = [tasks EXCEPT ![t] = TaskReturn(t, "skipped")]
            /\ UNCHANGED <<store, callsPlaced, writes>>
       ELSE IF matching = <<>>
       THEN \* nobody to call: lines 119-121 follow at once
            /\ tasks' = [tasks EXCEPT ![t] = TaskReturn(t, "escalated")]
            /\ EscalationWrite(t, o, Now)
            /\ UNCHANGED callsPlaced
       ELSE /\ tasks' = [tasks EXCEPT ![t].pc = "call", ![t].fanout = o,
                                      ![t].matching = matching, ![t].idx = 1,
                                      ![t].now = Now]
            /\ callsPlaced' = placed(s, matching[1])
            /\ UNCHANGED <<store, writes>>
    /\ UNCHANGED <<caregivers, claim_locks, fan, inb, smsSent>>

\* lines 116-117: a place_phone_call has returned; the loop awaits the next one
EscalationCall(t) ==
    /\ tasks[t].pc = "call"
    /\ tasks[t].idx < Len(tasks[t].matching)
    /\ callsPlaced' = placed(tasks[t].shift_id, tasks[t].matching[tasks[t].idx + 1])
    /\ tasks' = [tasks EXCEPT ![t].idx = @ + 1]
    /\ UNCHANGED <<caregivers, store, claim_locks, fan, inb, smsSent, writes>>

\* lines 119-121: the last call has returned; mark the record escalated, store it
EscalationCommit(t) ==
    /\ tasks[t].pc = "call"
    /\ tasks[t].idx = Len(tasks[t].matching)
    /\ EscalationWrite(t, tasks[t].fanout, tasks[t].now)
    /\ tasks' = [tasks EXCEPT ![t] = TaskReturn(t, "escalated")]
    /\ UNCHANGED <<caregivers, claim_locks, fan, inb, smsSent, callsPlaced>>

----------------------------------------------------------------------------
\* handle_inbound_message (api.py 124-187)

InboundReturn(call, result) ==
    [IdleInbound EXCEPT !.from_phone = call.from_phone, !.intent = call.intent,
                        !.caregiver = call.caregiver, !.pc = "done", !.result = result]

\* lines 130-142: resolve the sender, then await the intent classifier
InboundBegin(p, intent) ==
    /\ Len(inb) < MaxInbound
    /\ LET c == get_caregiver_by_phone(p)
           call == [IdleInbound EXCEPT !.from_phone = p, !.intent = intent, !.caregiver = c]
       IN
       IF c = None
       THEN inb' = Append(inb, InboundReturn(call, "404_caregiver_not_found"))
       ELSE inb' = Append(inb, [call EXCEPT !.pc = "intent"])
    /\ UNCHANGED <<caregivers, store, claim_locks, fan, tasks, history>>

\* a faulty line 153 that accepts every sender: what C10_ClaimedByContacted must rule out
contacted_in_anyone(c, o) == TRUE

\* line 153: `caregiver.id in f.contacted_caregiver_ids`
contacted_in(c, o) == c \in Range(heap[o].contacted_caregiver_ids)

\* lines 150-158: the first contacted PENDING object in store order, 0 for None
scan_pending(c) ==
    LET all == fanouts_all
        hits == {i \in DOMAIN all : contacted_in(c, all[i]) /\ heap[all[i]].status = PENDING}
    IN IF hits = {} THEN 0 ELSE all[CHOOSE i \in hits : \A j \in hits : i <= j]

\* a faulty scan that never remembers a CLAIMED record: what
\* C15_CandidateSelection must rule out
scan_claimed_never(c) == FALSE

\* lines 157-158: whether a loop that met no PENDING record set claimed_fanout
scan_claimed(c) ==
    \E i \in DOMAIN fanouts_all :
        contacted_in(c, fanouts_all[i]) /\ heap[fanouts_all[i]].status = CLAIMED

\* a faulty line 144 that turns away DECLINE only: what C11_DeclineIsInert must rule out
is_accept_unless_decline(intent) == intent # DECLINE

\* line 144: `intent != ShiftRequestMessageIntent.ACCEPT` is false
is_accept(intent) == intent = ACCEPT

\* lines 144-171: the classifier has answered; look for a fanout to claim
InboundScan(m) ==
    /\ inb[m].pc = "intent"
    /\ LET c == inb[m].caregiver
           o == scan_pending(c)
       IN
       IF ~is_accept(inb[m].intent)
       THEN inb' = [inb EXCEPT ![m] = InboundReturn(inb[m], "processed")]
       ELSE IF o = 0
       THEN inb' = [inb EXCEPT ![m] = InboundReturn(inb[m],
                        IF scan_claimed(c) THEN "shift_already_claimed"
                                           ELSE "no_pending_shift")]
       ELSE inb' = [inb EXCEPT ![m].pc = "locks_lock", ![m].fanout = o]
    /\ UNCHANGED <<caregivers, store, claim_locks, fan, tasks, history>>

\* _claim_locks before any lock is created (line 16)
NoLocks == [s \in ShiftIds |-> None]

\* lines 26-28: the shift's lock, created unlocked when missing
got_claim_lock(s) ==
    IF claim_locks[s] = None THEN [claim_locks EXCEPT ![s] = "free"] ELSE claim_locks

\* lines 23-28 (_get_claim_lock): under _locks_lock, get or create the shift's lock
InboundGetClaimLock(m) ==
    /\ inb[m].pc = "locks_lock"
    /\ claim_locks' = got_claim_lock(heap[inb[m].fanout].shift_id)
    /\ inb' = [inb EXCEPT ![m].pc = "lock"]
    /\ UNCHANGED <<caregivers, store, fan, tasks, history>>

\* a faulty line 174, without the status test: what C1_OneWinner must rule out
claim_refused_only_if_absent(o) == o = 0

\* line 174: `fanout is None or fanout.status != PENDING`, on the re-read record
claim_refused(o) == o = 0 \/ heap[o].status # PENDING

\* lines 180-181: what a claim writes to the re-read object
claimed(obj, c) == [obj EXCEPT !.status = CLAIMED, !.claimed_by = c]

\* line 172: `async with lock` entered, the lock is taken
acquired(locks, s) == [locks EXCEPT ![s] = "held"]

\* a faulty exit that keeps the lock: what C18_LockReleased must rule out
released_never(locks, s) == locks

\* line 172: `async with lock` left, by the return at 175 or past line 182
released(locks, s) == [locks EXCEPT ![s] = "free"]

\* lines 172-187: the shift's lock is acquired once it is free; re-read, check,
\* claim, release.  The block holds no await, so acquire, body and release are
\* one step.
InboundClaim(m) ==
    /\ inb[m].pc = "lock"
    /\ claim_locks[heap[inb[m].fanout].shift_id] = "free"
    /\ LET s == heap[inb[m].fanout].shift_id
           o == fanouts_get(s)
       IN
       /\ claim_locks' = released(acquired(claim_locks, s), s)
       /\ IF claim_refused(o)
          THEN /\ inb' = [inb EXCEPT ![m] = [InboundReturn(inb[m], "shift_already_claimed")
                                                EXCEPT !.fanout = o]]
               /\ UNCHANGED <<store, writes>>
          ELSE /\ heap' = [heap EXCEPT ![o] = claimed(heap[o], inb[m].caregiver)]
               /\ fanouts' = fanouts_put(s, o)
               /\ keyOrder' = keyOrder_put(s)
               /\ writes' = [writes EXCEPT ![o].claims = @ + 1]
               /\ inb' = [inb EXCEPT ![m] = [InboundReturn(inb[m], "shift_claimed")
                                                EXCEPT !.fanout = o, !.shift_id = s]]
    /\ UNCHANGED <<caregivers, fan, tasks, smsSent, callsPlaced>>

----------------------------------------------------------------------------
\* The state after start-up: sample caregivers loaded, no fanout, no request

NoHistory ==
    /\ smsSent = [s \in ShiftIds |-> [c \in CaregiverIds |-> 0]]
    /\ callsPlaced = [s \in ShiftIds |-> [c \in CaregiverIds |-> 0]]
    /\ writes = <<>>

Init ==
    /\ caregivers = <<"c1", "c2", "c3">>
    /\ heap = <<>>
    /\ fanouts = [s \in ShiftIds |-> 0]
    /\ keyOrder = <<>>
    /\ claim_locks = NoLocks
    /\ fan = <<>>
    /\ inb = <<>>
    /\ tasks = <<>>
    /\ NoHistory

Next ==
    \/ FanoutBegin("s1")
    \/ \E f \in DOMAIN fan : FanoutSendSms(f)
    \/ \E f \in DOMAIN fan : FanoutCommit(f)
    \/ \E t \in DOMAIN tasks : EscalationWake(t)
    \/ \E t \in DOMAIN tasks : EscalationCall(t)
    \/ \E t \in DOMAIN tasks : EscalationCommit(t)
    \/ \E p \in {"p1", "p2", "p3"} : InboundBegin(p, ACCEPT)
    \/ \E m \in DOMAIN inb : InboundScan(m)
    \/ \E m \in DOMAIN inb : InboundGetClaimLock(m)
    \/ \E m \in DOMAIN inb : InboundClaim(m)

Spec == Init /\ [][Next]_vars

----------------------------------------------------------------------------
\* Inbound replies alone, against a store that earlier fanouts have filled:
\* each of s1 and s2 is absent, PENDING or already ESCALATED, in either
\* insertion order; the escalation tasks of PENDING records are still asleep.

\* one completed fanout_shift per stored shift, escalated or not
FanoutDone(s, status) ==
    IF status = ESCALATED
    THEN escalated(NewShiftFanout(s, Now, get_caregivers_by_role(role_required(s))), Now)
    ELSE NewShiftFanout(s, Now, get_caregivers_by_role(role_required(s)))

InitInbound ==
    /\ caregivers = <<"c1", "c2", "c3">>
    /\ claim_locks = NoLocks
    /\ inb = <<>>
    /\ \E ko \in {<<>>, <<"s1">>, <<"s2">>, <<"s1", "s2">>, <<"s2", "s1">>} :
       \E st \in [DOMAIN ko -> {PENDING, ESCALATED}] :
          LET matching(i) == get_caregivers_by_role(role_required(ko[i]))
              on(s, c) == \E i \in DOMAIN ko : ko[i] = s /\ c \in Range(matching(i))
              esc(s, c) == \E i \in DOMAIN ko :
                              ko[i] = s /\ c \in Range(matching(i)) /\ st[i] = ESCALATED
          IN
          /\ keyOrder = ko
          /\ heap = [i \in DOMAIN ko |-> FanoutDone(ko[i], st[i])]
          /\ fanouts = [s \in ShiftIds |->
                          IF s \in Range(ko) THEN CHOOSE i \in DOMAIN ko : ko[i] = s ELSE 0]
          /\ fan = [i \in DOMAIN ko |-> FanoutReturn(ko[i], "fanout_initiated")]
          /\ tasks = [i \in DOMAIN ko |->
                        IF st[i] = ESCALATED
                        THEN [EscalationTask(ko[i], Now)
                                 EXCEPT !.pc = "done", !.outcome = "escalated"]
                        ELSE EscalationTask(ko[i], Now)]
          /\ smsSent = [s \in ShiftIds |-> [c \in CaregiverIds |-> IF on(s, c) THEN 1 ELSE 0]]
          /\ callsPlaced = [s \in ShiftIds |->
                              [c \in CaregiverIds |-> IF esc(s, c) THEN 1 ELSE 0]]
          /\ writes = [i \in DOMAIN ko |->
                         [claims |-> 0,
                          escalations |-> IF st[i] = ESCALATED THEN 1 ELSE 0]]

NextInbound ==
    \/ \E p \in Phones, intent \in Intents : InboundBegin(p, intent)
    \/ \E m \in DOMAIN inb : InboundScan(m)
    \/ \E m \in DOMAIN inb : InboundGetClaimLock(m)
    \/ \E m \in DOMAIN inb : InboundClaim(m)

SpecInbound == InitInbound /\ [][NextInbound]_vars

----------------------------------------------------------------------------
\* Vocabulary of the properties

\* every request made so far has returned
AllReturned ==
    /\ \A f \in DOMAIN fan : fan[f].pc = "done"
    /\ \A m \in DOMAIN inb : inb[m].pc = "done"

\* the ACCEPT replies of caregivers that record o contacted
AcceptsOf(o) ==
    {m \in DOMAIN inb : inb[m].intent = ACCEPT /\ inb[m].caregiver # None
                        /\ contacted_in(inb[m].caregiver, o)}

\* record o was PENDING before the first reply (SpecInbound has no escalation)
WasPending(o) == heap[o].status # ESCALATED

\* K >= 2 caregivers of o's contacted set have replied ACCEPT, all calls returned
RaceOver(o) ==
    /\ WasPending(o)
    /\ AllReturned
    /\ Cardinality({inb[m].caregiver : m \in AcceptsOf(o)}) >= 2
    /\ Cardinality(AcceptsOf(o)) = Cardinality({inb[m].caregiver : m \in AcceptsOf(o)})

\* exactly one of the replies won record o, the others were told it is taken
OneWinner(o) ==
    \E w \in AcceptsOf(o) :
        /\ inb[w].result = "shift_claimed"
        /\ heap[o].claimed_by = inb[w].caregiver
        /\ heap[o].status = CLAIMED
        /\ \A m \in AcceptsOf(o) \ {w} : inb[m].result = "shift_already_claimed"

\* no other record that was PENDING contacted one of the repliers
OnlyOffer(o) ==
    \A o2 \in DOMAIN heap \ {o} :
        WasPending(o2) => \A m \in AcceptsOf(o) : ~contacted_in(inb[m].caregiver, o2)

----------------------------------------------------------------------------
\* C1 as stated: whenever K >= 2 contacted caregivers of a PENDING fanout have
\* replied ACCEPT, exactly one call returned shift_claimed, the other K-1
\* returned shift_already_claimed, and claimed_by is the winner.
C1_AsStated == \A o \in DOMAIN heap : RaceOver(o) => OneWinner(o)

\* C1: the same, for caregivers whom no other PENDING fanout has contacted:
\* exactly one shift_claimed, K-1 shift_already_claimed, claimed_by the winner.
C1_OneWinner == \A o \in DOMAIN heap : (RaceOver(o) /\ OnlyOffer(o)) => OneWinner(o)

\* two replies met in the critical section: the loser was refused on the re-read
C1_Witness ==
    \E o \in DOMAIN heap :
        /\ RaceOver(o) /\ OnlyOffer(o) /\ OneWinner(o)
        /\ \E m \in AcceptsOf(o) :
              inb[m].result = "shift_already_claimed" /\ inb[m].fanout = o

----------------------------------------------------------------------------
\* The full system under fair scheduling of the escalation tasks: the event
\* loop resumes a task whose sleep or phone call has completed.

EscalationStep(t) ==
    /\ t \in DOMAIN tasks
    /\ EscalationWake(t) \/ EscalationCall(t) \/ EscalationCommit(t)

FairSpec == Spec /\ \A t \in 1..MaxFanoutCalls : WF_vars(EscalationStep(t))

----------------------------------------------------------------------------
\* the calls that returned shift_claimed for shift s
Winners(s) == {m \in DOMAIN inb : inb[m].result = "shift_claimed" /\ inb[m].shift_id = s}

\* C2: for every shift, at most one handle_inbound_message call ever returns
\* shift_claimed.
C2_AtMostOneClaim == \A s \in ShiftIds : Cardinality(Winners(s)) <= 1

\* C3: CLAIMED is terminal: a record whose status is CLAIMED keeps that status
\* in every later step of any operation.
C3_ClaimedIsTerminal ==
    [][\A o \in DOMAIN heap : heap[o].status = CLAIMED => heap'[o].status = CLAIMED]_vars

\* C4: a claim and an escalation never both pass their PENDING check on the
\* same fanout and both commit their write.
C4_ClaimXorEscalation ==
    \A o \in DOMAIN heap : ~(writes[o].claims >= 1 /\ writes[o].escalations >= 1)

\* C5: a fanout_shift call that starts after an earlier call for the same
\* shift (with an eligible caregiver) has returned reports already_fanout, sends
\* no SMS, creates no escalation task and leaves the store unchanged.
C5_SecondCallIsNoop ==
    [][Len(fan') = Len(fan) + 1 =>
         LET call == fan'[Len(fan')]
             s == call.shift_id
         IN (/\ shift_exists(s)
             /\ get_caregivers_by_role(role_required(s)) # <<>>
             /\ \E f \in DOMAIN fan : fan[f].shift_id = s /\ fan[f].pc = "done")
            => (/\ call.pc = "done"
                /\ call.result = "already_fanout"
                /\ UNCHANGED <<smsSent, tasks, store>>)]_vars

\* a call answered already_fanout after the first call had returned
C5_Witness ==
    /\ Len(fan) = 2
    /\ fan[1].result = "fanout_initiated"
    /\ fan[2].result = "already_fanout"
    /\ Len(heap) = 1 /\ Len(tasks) = 1
    /\ \A c \in Range(heap[1].contacted_caregiver_ids) : smsSent[fan[1].shift_id][c] = 1

\* C6: for any interleaving of fanout_shift calls for a shift, exactly one
\* returns fanout_initiated, each eligible caregiver gets exactly one SMS, and
\* the record is created once and never replaced.
C6_OfferedOnce ==
    \A s \in ShiftIds :
        /\ Cardinality({f \in DOMAIN fan : fan[f].shift_id = s
                                           /\ fan[f].result = "fanout_initiated"}) <= 1
        /\ \A c \in CaregiverIds : smsSent[s][c] <= 1
        /\ Cardinality({o \in DOMAIN heap : heap[o].shift_id = s}) <= 1

\* the stored record of shift s is ESCALATED with its call time set
StoredEscalated(s) ==
    /\ fanouts_get(s) # 0
    /\ heap[fanouts_get(s)].status = ESCALATED
    /\ heap[fanouts_get(s)].phone_call_sent_at # None

\* a claim has been committed for shift s
ClaimCommitted(s) == \E o \in DOMAIN heap : heap[o].shift_id = s /\ writes[o].claims >= 1

\* C7: after a successful fanout, under fair scheduling of the escalation
\* task, either a claim is committed before the delay elapses or the fanout's
\* status eventually is ESCALATED with phone_call_sent_at set.
C7_EscalationFires ==
    \A t \in 1..MaxFanoutCalls :
        (t \in DOMAIN tasks /\ tasks[t].pc = "sleep")
        ~> (/\ t \in DOMAIN tasks
            /\ \/ tasks[t].outcome = "skipped" /\ ClaimCommitted(tasks[t].shift_id)
               \/ StoredEscalated(tasks[t].shift_id))

\* a task that found its record still PENDING has escalated it; nobody claimed
C7_Witness ==
    \E t \in DOMAIN tasks :
        /\ tasks[t].outcome = "escalated"
        /\ StoredEscalated(tasks[t].shift_id)
        /\ ~ClaimCommitted(tasks[t].shift_id)

\* C8: when a claim was committed for the shift before its escalation task
\* wakes, the task places no call and writes nothing, and the shift's record
\* stays CLAIMED with phone_call_sent_at unset from then on.
C8_NoopAfterClaim ==
    [][\A t \in DOMAIN tasks :
          LET s == tasks[t].shift_id IN
          /\ (tasks[t].pc = "sleep" /\ tasks'[t].pc # "sleep" /\ ClaimCommitted(s))
             => (tasks'[t].outcome = "skipped" /\ UNCHANGED <<store, callsPlaced>>)
          /\ (tasks[t].outcome = "skipped" /\ heap[fanouts_get(s)].status = CLAIMED)
             => (/\ heap'[fanouts_get(s)'].status = CLAIMED
                 /\ heap'[fanouts_get(s)'].phone_call_sent_at = None)]_vars

\* C9: for every fanout record, phone_call_sent_at is set if and only if the
\* record has reached ESCALATED.
C9_PhoneCallIffEscalated ==
    \A o \in DOMAIN heap :
        /\ heap[o].phone_call_sent_at # None <=> writes[o].escalations >= 1
        /\ heap[o].status = ESCALATED <=> writes[o].escalations >= 1

\* records on both sides: one escalated with its call time, one never escalated
C9_Witness ==
    /\ \E o \in DOMAIN heap :
          heap[o].status = ESCALATED /\ heap[o].phone_call_sent_at # None
    /\ \E o \in DOMAIN heap :
          heap[o].status = CLAIMED /\ heap[o].phone_call_sent_at = None

\* C10: for every fanout record, claimed_by is null or a member of the
\* record's contacted_caregiver_ids.
C10_ClaimedByContacted ==
    \A o \in DOMAIN heap :
        heap[o].claimed_by = None
        \/ heap[o].claimed_by \in Range(heap[o].contacted_caregiver_ids)

\* a record claimed while a caregiver outside its contacted set replied ACCEPT
C10_Witness ==
    /\ \E o \in DOMAIN heap : heap[o].claimed_by # None
    /\ \E m \in DOMAIN inb :
          /\ inb[m].pc = "done" /\ inb[m].intent = ACCEPT /\ inb[m].caregiver # None
          /\ \A o \in DOMAIN heap : ~contacted_in(inb[m].caregiver, o)

----------------------------------------------------------------------------
\* some stored record that contacted caregiver c has status st
OfferedWith(c, st) ==
    \E s \in ShiftIds : /\ fanouts[s] # 0
                        /\ contacted_in(c, fanouts[s])
                        /\ heap[fanouts[s]].status = st

\* call m of handle_inbound_message takes a step
InboundMoves(m) == m \notin DOMAIN inb \/ inb'[m] # inb[m]

\* C11: a reply from a known caregiver classified DECLINE or UNKNOWN returns
\* processed and no step of the call changes any fanout record.
C11_DeclineIsInert ==
    [][\A m \in DOMAIN inb' :
          (InboundMoves(m) /\ inb'[m].caregiver # None /\ inb'[m].intent \in {DECLINE, UNKNOWN})
          => (/\ UNCHANGED store
              /\ inb'[m].pc \in {"intent", "done"}
              /\ inb'[m].pc = "done" => inb'[m].result = "processed")]_vars

\* DECLINE and UNKNOWN replies from a caregiver with a PENDING offer were processed
C11_Witness ==
    /\ \E m \in DOMAIN inb : /\ inb[m].intent = DECLINE /\ inb[m].result = "processed"
                             /\ OfferedWith(inb[m].caregiver, PENDING)
    /\ \E m \in DOMAIN inb : /\ inb[m].intent = UNKNOWN /\ inb[m].result = "processed"
                             /\ OfferedWith(inb[m].caregiver, PENDING)

\* C12: a reply whose from_phone matches no caregiver gets the 404 error,
\* whatever its intent and the fanout states, and changes no fanout record.
C12_UnknownSenderRejected ==
    [][Len(inb') = Len(inb) + 1 =>
         LET call == inb'[Len(inb')] IN
         (\A i \in DOMAIN caregivers : phone(caregivers[i]) # call.from_phone)
         => (/\ call.pc = "done"
             /\ call.result = "404_caregiver_not_found"
             /\ UNCHANGED store)]_vars

\* an ACCEPT from an unknown phone was rejected while a record was PENDING
C12_Witness ==
    /\ \E m \in DOMAIN inb : /\ inb[m].from_phone = "p9" /\ inb[m].intent = ACCEPT
                             /\ inb[m].result = "404_caregiver_not_found"
    /\ \E o \in DOMAIN heap : heap[o].status = PENDING

----------------------------------------------------------------------------
\* Fanout against a roster that grows: the store starts with a CNA only, RNs
\* are added later (db.caregivers.put), and fanout is requested for s1 and for
\* "s0", which has no Shift record.

\* db.caregivers.put(c.id, c) for a caregiver not yet in the store
CaregiverPut(c) ==
    /\ c \notin Range(caregivers)
    /\ caregivers' = Append(caregivers, c)
    /\ UNCHANGED <<store, claim_locks, fan, inb, tasks, history>>

InitRoster ==
    /\ caregivers = <<"c3">>
    /\ heap = <<>>
    /\ fanouts = [s \in ShiftIds |-> 0]
    /\ keyOrder = <<>>
    /\ claim_locks = NoLocks
    /\ fan = <<>>
    /\ inb = <<>>
    /\ tasks = <<>>
    /\ NoHistory

NextRoster ==
    \/ \E s \in {"s1", "s0"} : FanoutBegin(s)
    \/ \E f \in DOMAIN fan : FanoutSendSms(f)
    \/ \E f \in DOMAIN fan : FanoutCommit(f)
    \/ \E c \in {"c1", "c2"} : CaregiverPut(c)
    \/ \E t \in DOMAIN tasks : EscalationWake(t)
    \/ \E t \in DOMAIN tasks : EscalationCall(t)
    \/ \E t \in DOMAIN tasks : EscalationCommit(t)

SpecRoster == InitRoster /\ [][NextRoster]_vars

\* the two ways fanout_shift fails
FanoutFailures == {"404_shift_not_found", "404_no_caregivers"}

\* C13: a fanout_shift call for a missing shift or for a role nobody has fails
\* without creating a record, sending an SMS or creating an escalation task;
\* once the shift has an eligible caregiver, a call that follows only failed
\* calls for that shift goes through and returns fanout_initiated.
C13_FailedFanoutIsClean ==
    [][/\ Len(fan') = Len(fan) + 1 =>
            LET call == fan'[Len(fan')]
                s == call.shift_id
                eligible == {i \in DOMAIN caregivers :
                                role(caregivers[i]) = role_required(s)}
            IN /\ (s \notin ShiftIds \/ eligible = {})
                  => (/\ call.pc = "done"
                      /\ call.result \in FanoutFailures
                      /\ UNCHANGED <<store, smsSent, tasks>>)
               /\ (/\ s \in ShiftIds
                   /\ eligible # {}
                   /\ \A f \in DOMAIN fan :
                         fan[f].shift_id = s => fan[f].result \in FanoutFailures)
                  => call.pc = "sms"
       /\ \A f \in DOMAIN fan :
             (fan[f].pc = "sms" /\ fan'[f].pc = "done")
             => fan'[f].result = "fanout_initiated"]_vars

\* s1's fanout failed for want of an RN, and succeeded after one was added
C13_Witness ==
    /\ Len(fan) = 2
    /\ fan[1].shift_id = "s1" /\ fan[1].result = "404_no_caregivers"
    /\ fan[2].shift_id = "s1" /\ fan[2].result = "fanout_initiated"
    /\ Len(heap) = 1 /\ Len(tasks) = 1

----------------------------------------------------------------------------
\* the stored records that contacted c, are ESCALATED and name no claimant
EscalatedOffers(c) ==
    {s \in ShiftIds : /\ fanouts[s] # 0
                      /\ contacted_in(c, fanouts[s])
                      /\ heap[fanouts[s]].status = ESCALATED
                      /\ heap[fanouts[s]].claimed_by = None}

\* C14: an ACCEPT reply from a caregiver whose only open offer is an ESCALATED
\* fanout without claimant turns that fanout CLAIMED, claimed_by that caregiver.
C14_EscalatedCanBeClaimed ==
    [][\A m \in DOMAIN inb :
          (/\ inb[m].pc # "done" /\ inb'[m].pc = "done"
           /\ inb[m].intent = ACCEPT
           /\ ~OfferedWith(inb[m].caregiver, PENDING)
           /\ EscalatedOffers(inb[m].caregiver) # {})
          => \E s \in EscalatedOffers(inb[m].caregiver) :
                /\ heap'[fanouts'[s]].status = CLAIMED
                /\ heap'[fanouts'[s]].claimed_by = inb[m].caregiver]_vars

----------------------------------------------------------------------------
\* C15: the scan of an ACCEPT reply from a known caregiver c picks a PENDING
\* record that contacted c when there is one; with none PENDING but one
\* CLAIMED it answers shift_already_claimed; with no record that contacted c
\* it answers no_pending_shift; the last two change no record.
C15_CandidateSelection ==
    [][\A m \in DOMAIN inb :
          (inb[m].pc = "intent" /\ inb'[m].pc # "intent" /\ inb[m].intent = ACCEPT)
          => LET c == inb[m].caregiver
                 picked == inb'[m].fanout
             IN /\ OfferedWith(c, PENDING)
                   => (/\ inb'[m].pc = "locks_lock"
                       /\ \E s \in ShiftIds : fanouts[s] = picked
                       /\ heap[picked].status = PENDING
                       /\ contacted_in(c, picked)
                       /\ UNCHANGED store)
                /\ (~OfferedWith(c, PENDING) /\ OfferedWith(c, CLAIMED))
                   => (/\ inb'[m].pc = "done"
                       /\ inb'[m].result = "shift_already_claimed"
                       /\ UNCHANGED store)
                /\ (\A st \in {PENDING, CLAIMED, ESCALATED} : ~OfferedWith(c, st))
                   => (/\ inb'[m].pc = "done"
                       /\ inb'[m].result = "no_pending_shift"
                       /\ UNCHANGED store)]_vars

\* one reply went for the PENDING record and claimed it; a later reply from a
\* contacted caregiver was told at the scan that the shift is taken
C15_Witness ==
    /\ \E m \in DOMAIN inb : inb[m].result = "shift_claimed"
    /\ \E m \in DOMAIN inb : /\ inb[m].result = "shift_already_claimed"
                             /\ inb[m].fanout = 0
                             /\ OfferedWith(inb[m].caregiver, CLAIMED)

----------------------------------------------------------------------------
\* call f is the only fanout_shift call for its shift that got past the checks
OnlySender(f) ==
    \A g \in DOMAIN fan \ {f} :
        fan[g].shift_id = fan[f].shift_id
        => (fan[g].pc = "done" /\ fan[g].result # "fanout_initiated")

\* the caregivers of the store whose role the shift requires
Eligible(s) == {c \in Range(caregivers) : role(c) = role_required(s)}

\* C16: the step in which a fanout_shift call succeeds stores a record that is
\* PENDING, without claimant or call time, with sms_sent_at = created_at and a
\* contacted list holding exactly the caregivers of the required role, once
\* each; a first-time call has sent exactly one SMS to each of them and none
\* to anyone else.
C16_FirstFanoutRecord ==
    [][\A f \in DOMAIN fan :
          (fan[f].pc = "sms" /\ fan'[f].pc = "done")
          => LET s == fan[f].shift_id
                 rec == heap'[fanouts'[s]]
                 ids == rec.contacted_caregiver_ids
             IN /\ fan'[f].result = "fanout_initiated"
                /\ fanouts'[s] = Len(heap')
                /\ rec.shift_id = s
                /\ rec.status = PENDING
                /\ rec.claimed_by = None
                /\ rec.phone_call_sent_at = None
                /\ rec.sms_sent_at = rec.created_at /\ rec.created_at # None
                /\ Range(ids) = Eligible(s)
                /\ Len(ids) = Cardinality(Eligible(s))
                /\ OnlySender(f)
                   => \A c \in CaregiverIds :
                         smsSent'[s][c] = IF c \in Eligible(s) THEN 1 ELSE 0]_vars

\* the only call for s1 has returned fanout_initiated; c1 and c2 got one SMS each
C16_Witness ==
    /\ Len(fan) = 1
    /\ fan[1].result = "fanout_initiated"
    /\ fanouts[fan[1].shift_id] = 1
    /\ heap[1].contacted_caregiver_ids = <<"c1", "c2">>
    /\ smsSent[fan[1].shift_id] = [c \in CaregiverIds |-> IF c = "c3" THEN 0 ELSE 1]

----------------------------------------------------------------------------
\* the escalation tasks of shift s that were created and have not finished
Outstanding(s) == {t \in DOMAIN tasks : tasks[t].shift_id = s /\ tasks[t].pc # "done"}

\* C17: in every reachable state each shift has at most one outstanding
\* (created, not finished) escalation task.
C17_OneOutstandingTask == \A s \in ShiftIds : Cardinality(Outstanding(s)) <= 1

\* C19: for every fanout record, claimed_by is non-null if and only if the
\* status is CLAIMED.
C19_ClaimantIffClaimed ==
    \A o \in DOMAIN heap : heap[o].claimed_by # None <=> heap[o].status = CLAIMED

\* the escalation writes (lines 119-121) made for shift s, over all its records
EscalationWrites(s) ==
    LET objs == {o \in DOMAIN heap : heap[o].shift_id = s}
        sum[S \in SUBSET objs] ==
            IF S = {} THEN 0
            ELSE LET o == CHOOSE x \in S : TRUE
                 IN writes[o].escalations + sum[S \ {o}]
    IN sum[objs]

\* C20: for every shift, each caregiver receives at most one escalation phone
\* call and the write of ESCALATED and phone_call_sent_at happens at most once.
C20_EscalatesOnce ==
    \A s \in ShiftIds :
        /\ \A c \in CaregiverIds : callsPlaced[s][c] <= 1
        /\ EscalationWrites(s) <= 1

----------------------------------------------------------------------------
\* Inbound replies under fair scheduling: the event loop resumes every call
\* whose await has completed (a call waiting for a held lock is not resumed).

InboundStep(m) ==
    /\ m \in DOMAIN inb
    /\ InboundScan(m) \/ InboundGetClaimLock(m) \/ InboundClaim(m)

FairSpecInbound == SpecInbound /\ \A m \in 1..MaxInbound : WF_vars(InboundStep(m))

\* C18: the per-shift lock is free whenever no call is inside the critical
\* section, on both exits of the claim, so no call waits for it forever: every
\* handle_inbound_message call eventually returns.
C18_LockReleased ==
    /\ [](\A s \in ShiftIds : claim_locks[s] # "held")
    /\ \A m \in 1..MaxInbound :
          (m \in DOMAIN inb /\ inb[m].pc # "done")
          ~> (m \in DOMAIN inb /\ inb[m].pc = "done")

\* two calls went through the critical section of one shift, one by each exit,
\* and the shift's lock is free
C18_Witness ==
    \E s \in ShiftIds :
        /\ claim_locks[s] = "free"
        /\ \E m \in DOMAIN inb : inb[m].result = "shift_claimed" /\ inb[m].shift_id = s
        /\ \E m \in DOMAIN inb : /\ inb[m].result = "shift_already_claimed"
                                 /\ inb[m].fanout = fanouts[s]
        /\ AllReturned

----------------------------------------------------------------------------
\* C21: the step in which an ACCEPT reply returns shift_claimed sets status
\* and claimed_by on exactly one fanout record, which was PENDING and had
\* contacted the sender, and leaves every other record, stored or not, as it
\* was; no other step of the call changes a record.
C21_OneRecordChanged ==
    [][\A m \in DOMAIN inb :
          (inb'[m] # inb[m] /\ inb[m].intent = ACCEPT)
          => IF inb'[m].result = "shift_claimed"
             THEN \E s \in ShiftIds :
                     LET o == fanouts[s] IN
                     /\ o # 0
                     /\ inb'[m].shift_id = s
                     /\ heap[o].status = PENDING
                     /\ contacted_in(inb[m].caregiver, o)
                     /\ heap'[o] = [heap[o] EXCEPT !.status = CLAIMED,
                                                   !.claimed_by = inb[m].caregiver]
                     /\ \A o2 \in DOMAIN heap \ {o} : heap'[o2] = heap[o2]
                     /\ DOMAIN heap' = DOMAIN heap
                     /\ fanouts' = fanouts
                     /\ keyOrder' = keyOrder
             ELSE UNCHANGED store]_vars

\* c1 was offered two PENDING shifts; its one ACCEPT claimed one of them and
\* the other is still PENDING
C21_Witness ==
    /\ Len(inb) = 1
    /\ inb[1].result = "shift_claimed"
    /\ \E s \in ShiftIds :
          /\ fanouts[s] # 0
          /\ heap[fanouts[s]].status = PENDING
          /\ contacted_in(inb[1].caregiver, fanouts[s])
          /\ s # inb[1].shift_id

============================================================================
